---- MODULE Spec2Model ----
(***************************************************************************)
(* ATOMX: the vault program (share accounting, arbitrage settlement) and   *)
(* the swap-router program (forwarding of instructions to the Jupiter      *)
(* aggregator), modelled as one state machine.  Every instruction is one   *)
(* atomic action: the handler is run on a working copy of the accounts and *)
(* the copy is committed when the handler returns Ok and dropped when it   *)
(* returns Err.  The token accounts are the ones the instructions are     *)
(* meant for: vault_token is the pool, user_token and executor_token the   *)
(* signer's own account.  Tokens reach or leave the pool only through the  *)
(* vault's instructions; what the aggregator does to the pool is seen      *)
(* where execute_arbitrage reloads the balance.                            *)
(***************************************************************************)
EXTENDS Integers, Sequences, FiniteSets, TLC

(* ------------------------------ bounds --------------------------------- *)

\* Largest value of the unsigned 64-bit type, scaled down so that products of
\* two such values stay inside the range of TLC's integers.
U64_MAX == 32767

\* Number of committed instructions in one behaviour.
MaxOps == 5

\* Tokens every user holds outside the vault at the start.
InitialBalance == 1200

(* ----------------------------- identities ------------------------------ *)

WSOL_MINT == "So11111111111111111111111111111111111111112"

JUPITER_V6 == "JUP6LkbZbjS1jKKwapdHNy74zcZ3tLUZoi5QNyVTaV4"

SWAP_ROUTER_ID == "EoUeQknw3Mt1jbpHT6KCADu9YmD5ZgT1JFZSTDV8mNdP"

VAULT_ID == "J9L1xWf6Krkg7284UThzykxNZ133Sw7Kk2fLHJ2cpKSn"

\* Any program other than the three above.
OTHER_PROGRAM == "OtherProgram"

OTHER_MINT == "OtherMint"

Users == {"u1", "u2"}

Admin == "admin"

\* seeds of the vault's program-derived address: [b"vault", [bump]]
VaultBump == 254

VaultSeeds == <<"vault", VaultBump>>

OtherSeeds == <<"other", 1>>

RouterBump == 253

(* ------------------------------ inputs --------------------------------- *)

Amounts == {0, 7, 1000}

ShareRequests == {0, 7}

MinProfits == {0, 50}

\* Change of the pool balance caused by the forwarded swap.
Deltas == {-60, 0, 5, 100, 4000}

Payloads == {<<>>, <<1>>}

FeeRates == {1000, 1001}

(* ------------------------- checked arithmetic -------------------------- *)

\* None of Option<u64> / Option<u128>
None == -1

U128_MAX == (U64_MAX + 1) * (U64_MAX + 1) - 1

checked_add(a, b) == IF a = None \/ b = None THEN None
                     ELSE IF a + b > U64_MAX THEN None ELSE a + b

checked_sub(a, b) == IF a = None \/ b = None THEN None
                     ELSE IF a < b THEN None ELSE a - b

checked_mul(a, b) == IF a = None \/ b = None THEN None
                     ELSE IF a * b > U64_MAX THEN None ELSE a * b

checked_div(a, b) == IF a = None \/ b = None THEN None
                     ELSE IF b = 0 THEN None ELSE a \div b

checked_mul_u128(a, b) == IF a * b > U128_MAX THEN None ELSE a * b

\* u128 -> u64 (try_into)
try_into_u64(a) == IF a = None \/ a > U64_MAX THEN None ELSE a

(* ------------------------------- state --------------------------------- *)

VARIABLES
  vault,        \* the Vault account
  position,     \* the UserPosition accounts, by user
  vault_token,  \* amount of the vault's token account (the pool)
  user_token,   \* amount of each user's token account
  router_state, \* the RouterState account
  log,          \* what left the program: ArbitrageExecuted events, fee transfers
  last,         \* the last instruction: its arguments, locals and outcome
  nOps          \* committed instructions so far

vars == <<vault, position, vault_token, user_token, router_state, log, last, nOps>>

\* The accounts and the log as one record: what an instruction reads and
\* writes, and what the runtime discards when it fails.
St == [vault |-> vault, position |-> position, vault_token |-> vault_token,
       user_token |-> user_token, router_state |-> router_state, log |-> log]

\* What the callee of a cross-program call answers: success or failure, and
\* on success the change it made to the pool balance.
NoResponse == [ok |-> FALSE, delta |-> 0]

Responses == {NoResponse} \cup {[ok |-> TRUE, delta |-> d] : d \in Deltas}

NoEvent == [name |-> "none", user |-> "none", a |-> 0, b |-> 0, c |-> 0]

Blank(s) ==
  [op |-> "none", user |-> "none", owner |-> "none", err |-> "Ok", amount |-> 0,
   shares |-> 0, vault_balance |-> 0, initial_balance |-> 0, final_balance |-> 0,
   min_profit |-> 0, profit |-> 0, executor_fee |-> 0, data |-> <<>>,
   router |-> "none", jupiter_program |-> "none", executor_mint |-> "none",
   resp |-> NoResponse,
   cpi |-> <<>>, event |-> NoEvent, pre |-> s]

InitSt ==
  [vault |-> [initialized |-> FALSE, authority |-> "none", swap_router |-> "none",
              total_shares |-> 0, bump |-> 0],
   position |-> [u \in Users |-> [exists |-> FALSE, owner |-> "none", shares |-> 0]],
   vault_token |-> 0,
   user_token |-> [u \in Users |-> InitialBalance],
   router_state |-> [initialized |-> FALSE, authority |-> "none", fee_rate_bps |-> 0,
                     total_swaps |-> 0, total_volume |-> 0, bump |-> 0],
   log |-> [records |-> 0, fee_payouts |-> 0]]

Init ==
  /\ vault = InitSt.vault
  /\ position = InitSt.position
  /\ vault_token = InitSt.vault_token
  /\ user_token = InitSt.user_token
  /\ router_state = InitSt.router_state
  /\ log = InitSt.log
  /\ last = Blank(InitSt)
  /\ nOps = 0

(* ---------------------- outcome of an instruction ---------------------- *)

\* The runtime keeps the handler's writes when it returns Ok and discards
\* all of them when it returns Err.
Settle(err, pre, post) == IF err = "Ok" THEN post ELSE pre

\* A handler's result: `out` is what the instruction did, `st` the accounts
\* as the handler left them when it returned.
Result(out, st) == [out |-> out, st |-> st]

\* A failed instruction leaves every account as it was, so whatever can follow
\* it can follow the state it started from: instructions are explored from
\* the states a committed instruction (or the construction) left.
Finish(r) ==
  LET s == Settle(r.out.err, St, r.st) IN
  /\ nOps < MaxOps
  /\ last.err = "Ok"
  /\ vault' = s.vault
  /\ position' = s.position
  /\ vault_token' = s.vault_token
  /\ user_token' = s.user_token
  /\ router_state' = s.router_state
  /\ log' = s.log
  /\ last' = r.out
  /\ nOps' = IF r.out.err = "Ok" THEN nOps + 1 ELSE nOps

(* ------------------------------- vault --------------------------------- *)

\* fn initialize_vault
InitializeVaultRun(s, authority, swap_router) ==
  LET o == [Blank(s) EXCEPT !.op = "initialize_vault", !.user = authority] IN
  IF s.vault.initialized
  THEN Result([o EXCEPT !.err = "AccountAlreadyInUse"], s)
  ELSE Result(o, [s EXCEPT !.vault = [initialized |-> TRUE, authority |-> authority,
                                      swap_router |-> swap_router, total_shares |-> 0,
                                      bump |-> VaultBump]])

InitializeVault ==
  Finish(InitializeVaultRun(St, Admin, SWAP_ROUTER_ID))

\* token::transfer between a user's token account and the pool
TransferToPool(s, u, amount) ==
  [s EXCEPT !.user_token[u] = @ - amount, !.vault_token = @ + amount]

TransferFromPool(s, u, amount) ==
  [s EXCEPT !.vault_token = @ - amount, !.user_token[u] = @ + amount]

\* deposit reading the pool balance after its own transfer has landed
DepositVaultBalancePost(pre_balance, amount) == pre_balance + amount

\* The balance deposit divides by: the `amount` field of the vault_token
\* account as deserialized when the instruction started.  The transfer CPI
\* changes the account on the ledger, not this copy (there is no reload()).
DepositVaultBalance(pre_balance, amount) == pre_balance

\* deposit rounding the minted shares up
DepositSharesCeil(amount, total_shares, vault_balance) ==
  IF total_shares = 0 THEN amount
  ELSE checked_div(checked_add(checked_mul(amount, total_shares),
                               checked_sub(vault_balance, 1)), vault_balance)

\* deposit multiplying in 128 bits, as withdraw does
DepositSharesU128(amount, total_shares, vault_balance) ==
  IF total_shares = 0 THEN amount
  ELSE try_into_u64(checked_div(checked_mul_u128(amount, total_shares), vault_balance))

\* shares minted by deposit
DepositShares(amount, total_shares, vault_balance) ==
  IF total_shares = 0 THEN amount
  ELSE checked_div(checked_mul(amount, total_shares), vault_balance)

\* deposit crediting the position and not the vault's counter
DepositTotalSharesForgets(total_shares, shares) == total_shares

\* vault.total_shares after a deposit
DepositTotalShares(total_shares, shares) == checked_add(total_shares, shares)

\* fn deposit
DepositRun(s, u, amount) ==
  LET o == [Blank(s) EXCEPT !.op = "deposit", !.user = u, !.amount = amount] IN
  IF ~s.vault.initialized THEN Result([o EXCEPT !.err = "AccountNotInitialized"], s)
  ELSE
  LET s0 == [s EXCEPT !.position[u].exists = TRUE]  \* init_if_needed
  IN
  IF amount > s0.user_token[u]
  THEN Result([o EXCEPT !.err = "TokenInsufficientFunds"], s0)
  ELSE
  LET s1 == TransferToPool(s0, u, amount)
      vault_balance == DepositVaultBalance(s.vault_token, amount)
      shares == DepositShares(amount, s1.vault.total_shares, vault_balance)
      o1 == [o EXCEPT !.vault_balance = vault_balance]
  IN
  IF shares = None THEN Result([o1 EXCEPT !.err = "MathOverflow"], s1)
  ELSE
  LET user_shares == checked_add(s1.position[u].shares, shares) IN
  IF user_shares = None THEN Result([o1 EXCEPT !.err = "MathOverflow"], s1)
  ELSE
  LET s2 == [s1 EXCEPT !.position[u].shares = user_shares, !.position[u].owner = u]
      total == DepositTotalShares(s2.vault.total_shares, shares)
  IN
  IF total = None THEN Result([o1 EXCEPT !.err = "MathOverflow"], s2)
  ELSE
  Result([o1 EXCEPT !.shares = shares,
                    !.event = [name |-> "Deposited", user |-> u, a |-> amount,
                               b |-> shares, c |-> 0]],
         [s2 EXCEPT !.vault.total_shares = total])

Deposit == \E u \in Users, amount \in Amounts : Finish(DepositRun(St, u, amount))

\* withdraw multiplying in 64 bits
WithdrawAmountU64(shares, vault_balance, total_shares) ==
  IF shares = total_shares THEN vault_balance
  ELSE checked_div(checked_mul(shares, vault_balance), total_shares)

\* amount redeemed by withdraw
WithdrawAmount(shares, vault_balance, total_shares) ==
  IF shares = total_shares THEN vault_balance
  ELSE try_into_u64(checked_div(checked_mul_u128(shares, vault_balance), total_shares))

\* the comparison of withdraw with its operands swapped
SharesCheckSwapped(user_shares, shares) ==
  IF shares >= user_shares THEN "Ok" ELSE "InsufficientShares"

\* require!(user_position.shares >= shares, InsufficientShares)
SharesCheck(user_shares, shares) ==
  IF user_shares >= shares THEN "Ok" ELSE "InsufficientShares"

\* withdraw debiting the position and not the vault's counter
WithdrawTotalSharesForgets(total_shares, shares) == total_shares

\* vault.total_shares after a withdraw
WithdrawTotalShares(total_shares, shares) == checked_sub(total_shares, shares)

\* fn withdraw
WithdrawRun(s, u, owner, shares) ==
  LET o == [Blank(s) EXCEPT !.op = "withdraw", !.user = u, !.owner = owner,
                            !.shares = shares] IN
  IF ~s.vault.initialized \/ ~s.position[u].exists
  THEN Result([o EXCEPT !.err = "AccountNotInitialized"], s)
  ELSE IF s.position[u].owner # owner
  THEN Result([o EXCEPT !.err = "ConstraintHasOne"], s)
  ELSE IF SharesCheck(s.position[u].shares, shares) # "Ok"
  THEN Result([o EXCEPT !.err = SharesCheck(s.position[u].shares, shares)], s)
  ELSE
  LET vault_balance == s.vault_token
      amount == WithdrawAmount(shares, vault_balance, s.vault.total_shares)
      o1 == [o EXCEPT !.vault_balance = vault_balance]
  IN
  IF amount = None THEN Result([o1 EXCEPT !.err = "MathOverflow"], s)
  ELSE IF amount > s.vault_token
  THEN Result([o1 EXCEPT !.err = "TokenInsufficientFunds"], s)
  ELSE
  LET s1 == TransferFromPool(s, u, amount)
      user_shares == checked_sub(s1.position[u].shares, shares)
  IN
  IF user_shares = None THEN Result([o1 EXCEPT !.err = "MathOverflow"], s1)
  ELSE
  LET s2 == [s1 EXCEPT !.position[u].shares = user_shares]
      total == WithdrawTotalShares(s2.vault.total_shares, shares)
  IN
  IF total = None THEN Result([o1 EXCEPT !.err = "MathOverflow"], s2)
  ELSE
  Result([o1 EXCEPT !.amount = amount,
                    !.event = [name |-> "Withdrawn", user |-> u, a |-> amount,
                               b |-> shares, c |-> 0]],
         [s2 EXCEPT !.vault.total_shares = total])

Withdraw ==
  \E u \in Users, owner \in Users :
    \E shares \in ShareRequests \cup {position[u].shares, position[u].shares + 1} :
      Finish(WithdrawRun(St, u, owner, shares))

(* ------------------------------- router -------------------------------- *)

\* One cross-program call: `program` is the callee, `caller` the program
\* making the call, `origin` who invoked the caller's instruction (a user, or
\* VAULT_ID when the instruction was itself reached by CPI from the vault),
\* `seeds` the signer seeds handed to invoke_signed.
Call(program, caller, origin, mode, seeds, data) ==
  [program |-> program, caller |-> caller, origin |-> origin, mode |-> mode,
   seeds |-> seeds, data |-> data]

\* fn initialize_router
FeeRateCheckPercent(fee_rate_bps) == fee_rate_bps <= 10000

\* require!(fee_rate_bps <= 1000, InvalidFeeRate)
FeeRateCheck(fee_rate_bps) == fee_rate_bps <= 1000

InitializeRouterRun(s, authority, fee_rate_bps) ==
  LET o == [Blank(s) EXCEPT !.op = "initialize_router", !.user = authority,
                            !.amount = fee_rate_bps] IN
  IF s.router_state.initialized
  THEN Result([o EXCEPT !.err = "AccountAlreadyInUse"], s)
  ELSE
  LET s0 == [s EXCEPT !.router_state.initialized = TRUE] IN  \* #[account(init)]
  IF ~FeeRateCheck(fee_rate_bps) THEN Result([o EXCEPT !.err = "InvalidFeeRate"], s0)
  ELSE Result(o, [s0 EXCEPT !.router_state =
                     [initialized |-> TRUE, authority |-> authority,
                      fee_rate_bps |-> fee_rate_bps, total_swaps |-> 0,
                      total_volume |-> 0, bump |-> RouterBump]])

InitializeRouter ==
  \E fee_rate_bps \in FeeRates : Finish(InitializeRouterRun(St, Admin, fee_rate_bps))

\* the validations of execute_jupiter_swap, in order
DirectChecks(jupiter_program, data) ==
  IF jupiter_program # JUPITER_V6 THEN "ConstraintRaw"          \* #[account(constraint)]
  ELSE IF ~(jupiter_program = JUPITER_V6) THEN "InvalidJupiterProgram"
  ELSE IF ~(Len(data) # 0) THEN "EmptyInstructionData"
  ELSE "Ok"

DelegatedChecksNoProgram(origin, jupiter_program, data, vault_seeds) == "Ok"

\* the validations of execute_vault_jupiter_swap, in order
DelegatedChecks(origin, jupiter_program, data, vault_seeds) ==
  IF jupiter_program # JUPITER_V6 THEN "ConstraintRaw"          \* #[account(constraint)]
  ELSE IF ~(jupiter_program = JUPITER_V6) THEN "InvalidJupiterProgram"
  ELSE "Ok"

InvokeResultIgnored(resp) == "Ok"

\* invoke_signed(...)?: the failure of the called program is the caller's failure
InvokeResult(resp) == IF resp.ok THEN "Ok" ELSE "AggregatorError"

\* fn execute_jupiter_swap (direct signing mode)
ExecuteJupiterSwapRun(s, u, jupiter_program, data, resp) ==
  LET o == [Blank(s) EXCEPT !.op = "execute_jupiter_swap", !.user = u, !.data = data,
                            !.router = SWAP_ROUTER_ID,
                            !.jupiter_program = jupiter_program, !.resp = resp]
      chk == DirectChecks(jupiter_program, data)
  IN
  IF ~s.router_state.initialized
  THEN Result([o EXCEPT !.err = "AccountNotInitialized"], s)
  ELSE IF chk # "Ok" THEN Result([o EXCEPT !.err = chk], s)
  ELSE
  LET swaps == checked_add(s.router_state.total_swaps, 1) IN
  IF swaps = None THEN Result([o EXCEPT !.err = "ProgramFailedToComplete"], s)  \* unwrap()
  ELSE
  LET s1 == [s EXCEPT !.router_state.total_swaps = swaps]
      o1 == [o EXCEPT !.cpi = Append(@, Call(JUPITER_V6, SWAP_ROUTER_ID, u, "direct",
                                             <<>>, data))]
  IN
  IF InvokeResult(resp) # "Ok" THEN Result([o1 EXCEPT !.err = InvokeResult(resp)], s1)
  ELSE Result(o1, s1)

DirectReaches(s, jupiter_program, data) ==
  s.router_state.initialized /\ DirectChecks(jupiter_program, data) = "Ok"

ExecuteJupiterSwap ==
  \E u \in Users, jupiter_program \in {JUPITER_V6, OTHER_PROGRAM}, data \in Payloads :
    \E ok \in (IF DirectReaches(St, jupiter_program, data) THEN BOOLEAN ELSE {FALSE}) :
      Finish(ExecuteJupiterSwapRun(St, u, jupiter_program, data,
                                   [ok |-> ok, delta |-> 0]))

\* fn execute_vault_jupiter_swap (delegated signing mode), invoked by `origin`;
\* `o` is the record of the instruction it runs in.
ExecuteVaultJupiterSwapRun(s, o, origin, jupiter_program, data, vault_seeds, resp) ==
  LET chk == DelegatedChecks(origin, jupiter_program, data, vault_seeds) IN
  IF ~s.router_state.initialized
  THEN Result([o EXCEPT !.err = "AccountNotInitialized"], s)
  ELSE IF chk # "Ok" THEN Result([o EXCEPT !.err = chk], s)
  ELSE
  LET o1 == [o EXCEPT !.cpi = Append(@, Call(JUPITER_V6, SWAP_ROUTER_ID, origin,
                                             "delegated", vault_seeds, data))]
  IN
  IF InvokeResult(resp) # "Ok" THEN Result([o1 EXCEPT !.err = InvokeResult(resp)], s)
  ELSE Result(o1, s)

DelegatedReaches(s, origin, jupiter_program, data, vault_seeds) ==
  /\ s.router_state.initialized
  /\ DelegatedChecks(origin, jupiter_program, data, vault_seeds) = "Ok"

\* execute_vault_jupiter_swap sent as a transaction of its own by a user
ExecuteVaultJupiterSwap ==
  \E u \in Users, jupiter_program \in {JUPITER_V6, OTHER_PROGRAM}, data \in Payloads,
     vault_seeds \in {VaultSeeds, OtherSeeds} :
    \E ok \in (IF DelegatedReaches(St, u, jupiter_program, data, vault_seeds)
               THEN BOOLEAN ELSE {FALSE}) :
      Finish(ExecuteVaultJupiterSwapRun(
               St, [Blank(St) EXCEPT !.op = "execute_vault_jupiter_swap", !.user = u,
                                     !.data = data, !.router = SWAP_ROUTER_ID,
                                     !.jupiter_program = jupiter_program,
                                     !.resp = [ok |-> ok, delta |-> 0]],
               u, jupiter_program, data, vault_seeds, [ok |-> ok, delta |-> 0]))

(* ------------------------ arbitrage settlement ------------------------- *)

\* mint of the vault's token account
VaultTokenMint == WSOL_MINT

\* the checks of execute_arbitrage that precede the call of the router
ArbitragePrechecksNoMin(s, executor_mint, min_profit) ==
  IF ~s.vault.initialized THEN "AccountNotInitialized"
  ELSE IF ~(executor_mint = WSOL_MINT) THEN "InvalidTokenMint"
  ELSE IF ~(s.vault_token > 0) THEN "InsufficientVaultBalance"
  ELSE "Ok"

ArbitragePrechecks(s, executor_mint, min_profit) ==
  IF ~s.vault.initialized THEN "AccountNotInitialized"
  ELSE IF ~(VaultTokenMint = WSOL_MINT) THEN "InvalidTokenMint"
  ELSE IF ~(executor_mint = WSOL_MINT) THEN "InvalidTokenMint"
  ELSE IF ~(s.vault_token > 0) THEN "InsufficientVaultBalance"
  ELSE IF ~(min_profit > 0) THEN "InvalidMinProfit"
  ELSE "Ok"

\* What execute_arbitrage checks of the program it is about to call: the
\* account is an UncheckedAccount without a constraint and the handler never
\* compares it with vault.swap_router.
RouterProgramCheck(swap_router_program, stored_swap_router) == "Ok"

\* vault_token.reload(): the balance read after the call is the ledger's
FinalBalance(cached, ledger) == ledger

\* the profit taken as the absolute difference of the two balances
ProfitChecksAbsDiff(initial_balance, final_balance, min_profit) ==
  LET profit == IF final_balance >= initial_balance
                THEN final_balance - initial_balance
                ELSE initial_balance - final_balance
  IN
  IF ~(profit >= min_profit) THEN [err |-> "InsufficientProfit", profit |-> 0]
  ELSE [err |-> "Ok", profit |-> profit]

\* the profit checks without the comparison with min_profit
ProfitChecksNoMin(initial_balance, final_balance, min_profit) ==
  LET profit == checked_sub(final_balance, initial_balance) IN
  IF ~(final_balance > initial_balance) THEN [err |-> "InsufficientProfit", profit |-> 0]
  ELSE IF profit = None THEN [err |-> "InsufficientProfit", profit |-> 0]
  ELSE [err |-> "Ok", profit |-> profit]

\* the profit of execute_arbitrage and the checks on it
ProfitChecks(initial_balance, final_balance, min_profit) ==
  LET profit == checked_sub(final_balance, initial_balance) IN
  IF ~(final_balance > initial_balance) THEN [err |-> "InsufficientProfit", profit |-> 0]
  ELSE IF profit = None THEN [err |-> "InsufficientProfit", profit |-> 0]
  ELSE IF ~(profit >= min_profit) THEN [err |-> "InsufficientProfit", profit |-> 0]
  ELSE [err |-> "Ok", profit |-> profit]

FEE_NUMERATOR == 10

FEE_DENOMINATOR == 100

\* the fee taken as 10 basis points instead of 10 percent
ExecutorFeeBps(profit) == checked_div(checked_mul(profit, 10), 10000)

ExecutorFee(profit) == checked_div(checked_mul(profit, FEE_NUMERATOR), FEE_DENOMINATOR)

\* swap_router::cpi::execute_vault_jupiter_swap: the call of the program given
\* as swap_router_program.  The router's handler runs when that program is the
\* router; any other program answers as it likes.
CallRouter(s, o, swap_router_program, jupiter_program, data, resp) ==
  LET o1 == [o EXCEPT !.cpi = Append(@, Call(swap_router_program, VAULT_ID, o.user,
                                             "delegated", VaultSeeds, data))]
  IN
  IF swap_router_program = SWAP_ROUTER_ID
  THEN ExecuteVaultJupiterSwapRun(s, o1, VAULT_ID, jupiter_program, data, VaultSeeds, resp)
  ELSE IF ~resp.ok THEN Result([o1 EXCEPT !.err = "ForeignProgramError"], s)
  ELSE Result(o1, s)

\* whether the call of swap_router_program gets an answer from outside
CallAnswers(s, swap_router_program, jupiter_program, data) ==
  IF swap_router_program = SWAP_ROUTER_ID
  THEN DelegatedReaches(s, VAULT_ID, jupiter_program, data, VaultSeeds)
  ELSE TRUE

EmitArbitrageExecutedSkipped(s) == s

\* the executor's fee minted as shares of the pool instead of transferred
PayExecutorFeeInShares(s, e, executor_fee) ==
  [s EXCEPT !.position[e].shares = @ + executor_fee,
            !.vault.total_shares = @ + executor_fee,
            !.log.fee_payouts = @ + 1]

\* token::transfer(vault_token -> executor_token, executor_fee), signed by the vault
PayExecutorFee(s, e, executor_fee) ==
  [TransferFromPool(s, e, executor_fee) EXCEPT !.log.fee_payouts = @ + 1]

\* emit!(ArbitrageExecuted { .. })
EmitArbitrageExecuted(s) == [s EXCEPT !.log.records = @ + 1]

\* fn execute_arbitrage
ExecuteArbitrageRun(s, e, data, min_profit, swap_router_program, jupiter_program, executor_mint, resp) ==
  LET o == [Blank(s) EXCEPT !.op = "execute_arbitrage", !.user = e, !.data = data,
                            !.min_profit = min_profit, !.router = swap_router_program,
                            !.jupiter_program = jupiter_program,
                            !.executor_mint = executor_mint, !.resp = resp]
      pre == ArbitragePrechecks(s, executor_mint, min_profit)
  IN
  IF pre # "Ok" THEN Result([o EXCEPT !.err = pre], s)
  ELSE IF RouterProgramCheck(swap_router_program, s.vault.swap_router) # "Ok"
  THEN Result([o EXCEPT !.err = RouterProgramCheck(swap_router_program,
                                                   s.vault.swap_router)], s)
  ELSE
  LET initial_balance == s.vault_token
      r == CallRouter(s, [o EXCEPT !.initial_balance = initial_balance],
                      swap_router_program, jupiter_program, data, resp)
  IN
  IF r.out.err # "Ok" THEN r
  ELSE
  LET s1 == [r.st EXCEPT !.vault_token = @ + resp.delta]  \* what the swap did
      final_balance == FinalBalance(initial_balance, s1.vault_token)
      o1 == [r.out EXCEPT !.final_balance = final_balance]
      chk == ProfitChecks(initial_balance, final_balance, min_profit)
  IN
  IF chk.err # "Ok" THEN Result([o1 EXCEPT !.err = chk.err], s1)
  ELSE
  LET profit == chk.profit
      executor_fee == ExecutorFee(profit)
      o2 == [o1 EXCEPT !.profit = profit]
  IN
  IF executor_fee = None THEN Result([o2 EXCEPT !.err = "MathOverflow"], s1)
  ELSE IF executor_fee > s1.vault_token
  THEN Result([o2 EXCEPT !.err = "TokenInsufficientFunds"], s1)
  ELSE
  Result([o2 EXCEPT !.executor_fee = executor_fee,
                    !.event = [name |-> "ArbitrageExecuted", user |-> e, a |-> profit,
                               b |-> executor_fee, c |-> profit - executor_fee]],
         EmitArbitrageExecuted(PayExecutorFee(s1, e, executor_fee)))

ExecuteArbitrage ==
  \E e \in Users, data \in Payloads, min_profit \in MinProfits,
     swap_router_program \in {SWAP_ROUTER_ID, OTHER_PROGRAM},
     jupiter_program \in {JUPITER_V6, OTHER_PROGRAM},
     executor_mint \in {WSOL_MINT, OTHER_MINT} :
    \E resp \in (IF /\ ArbitragePrechecks(St, executor_mint, min_profit) = "Ok"
                    /\ CallAnswers(St, swap_router_program, jupiter_program, data)
                 THEN {x \in Responses : vault_token + x.delta >= 0}
                 ELSE {NoResponse}) :
      Finish(ExecuteArbitrageRun(St, e, data, min_profit, swap_router_program,
                                 jupiter_program, executor_mint, resp))

Next == InitializeVault \/ Deposit \/ Withdraw \/ ExecuteArbitrage \/ InitializeRouter
        \/ ExecuteJupiterSwap \/ ExecuteVaultJupiterSwap

Spec == Init /\ [][Next]_vars

(* ------------------------------ properties ----------------------------- *)

RECURSIVE SumShares(_, _)
\* sum of UserPosition.shares over the users in S
SumShares(pos, S) ==
  IF S = {} THEN 0
  ELSE LET u == CHOOSE x \in S : TRUE IN pos[u].shares + SumShares(pos, S \ {u})

\* the last instruction was `op` and committed
Committed(op) == last.op = op /\ last.err = "Ok"

\* the last instruction left every account as it found it
RolledBack == St = last.pre

\* the calls of the aggregator among the cross-program calls of the last instruction
AggregatorCalls == {i \in DOMAIN last.cpi : last.cpi[i].program = JUPITER_V6}

\* C1: in every state, after any sequence of committed or rolled-back
\* instructions, Vault.total_shares is the sum of the UserPosition.shares.
C1_SharesConserved == vault.total_shares = SumShares(position, Users)

C1_Witness ==
  /\ Committed("withdraw")
  /\ last.shares > 0
  /\ \A u \in Users : position[u].shares > 0
  /\ vault_token # vault.total_shares

\* C2: a committed deposit mints `amount` shares when total_shares was 0 and
\* floor(amount * total_shares / B_before) otherwise, B_before being the pool
\* balance before the transfer; the minted shares are added to the depositor's
\* position and to total_shares, the pool grows by `amount` and the depositor
\* pays `amount`.
C2_DepositMints ==
  Committed("deposit") =>
    LET u == last.user
        B == last.pre.vault_token
        S == last.pre.vault.total_shares
    IN
    /\ last.shares = IF S = 0 THEN last.amount ELSE (last.amount * S) \div B
    /\ position[u].shares = last.pre.position[u].shares + last.shares
    /\ vault.total_shares = S + last.shares
    /\ vault_token = B + last.amount
    /\ user_token[u] = last.pre.user_token[u] - last.amount
    /\ \A v \in Users \ {u} : position[v] = last.pre.position[v]

\* a deposit where dividing by the balance after the transfer gives other shares
C2_Witness ==
  /\ Committed("deposit")
  /\ last.pre.vault.total_shares > 0
  /\ last.shares > 0
  /\ last.shares # (last.amount * last.pre.vault.total_shares) \div vault_token

\* C3: a committed withdraw pays the whole pool when shares = total_shares and
\* floor(shares * pool / total_shares) otherwise, and takes `shares` from the
\* owner's position and from total_shares; a withdraw of shares the owner
\* holds never fails on the product shares * pool.
C3_WithdrawPays ==
  /\ Committed("withdraw") =>
       LET u == last.user
           B == last.pre.vault_token
           S == last.pre.vault.total_shares
       IN
       /\ last.pre.position[u].shares >= last.shares
       /\ last.amount = IF last.shares = S THEN B ELSE (last.shares * B) \div S
       /\ vault_token = B - last.amount
       /\ user_token[u] = last.pre.user_token[u] + last.amount
       /\ position[u].shares = last.pre.position[u].shares - last.shares
       /\ vault.total_shares = S - last.shares
  /\ last.op = "withdraw" => last.err # "MathOverflow"

\* a partial withdraw whose product shares * pool does not fit the integer type
C3_Witness ==
  /\ Committed("withdraw")
  /\ last.shares # last.pre.vault.total_shares
  /\ last.shares * last.pre.vault_token > U64_MAX
  /\ (last.shares * last.pre.vault_token) % last.pre.vault.total_shares # 0

\* the accounts handed to the last withdraw pass the account validation
WithdrawAccountsValid ==
  /\ last.pre.vault.initialized
  /\ last.pre.position[last.user].exists
  /\ last.pre.position[last.user].owner = last.owner

\* C4: a withdraw of more shares than the caller's position holds fails with
\* InsufficientShares and changes no account.
C4_OverdrawRejected ==
  (/\ last.op = "withdraw"
   /\ WithdrawAccountsValid
   /\ last.shares > last.pre.position[last.user].shares) =>
    /\ last.err = "InsufficientShares"
    /\ RolledBack
    /\ last.event = NoEvent

C4_Witness ==
  /\ last.op = "withdraw"
  /\ WithdrawAccountsValid
  /\ last.pre.position[last.user].shares > 0
  /\ last.shares > last.pre.position[last.user].shares
  /\ last.err = "InsufficientShares"

\* C5: a committed execute_arbitrage has profit = final_balance -
\* initial_balance with final_balance read after the forward, executor_fee =
\* floor(profit * 10 / 100), pays exactly the fee from the pool to the
\* executor, leaves the pool at initial_balance + profit - executor_fee, and
\* its event carries profit, executor_fee and profit - executor_fee.
C5_Settlement ==
  Committed("execute_arbitrage") =>
    LET e == last.user IN
    /\ last.initial_balance = last.pre.vault_token
    /\ last.final_balance = last.pre.vault_token + last.resp.delta
    /\ last.profit = last.final_balance - last.initial_balance
    /\ last.executor_fee = (last.profit * 10) \div 100
    /\ vault_token = last.final_balance - last.executor_fee
    /\ vault_token = last.initial_balance + (last.profit - last.executor_fee)
    /\ user_token[e] = last.pre.user_token[e] + last.executor_fee
    /\ last.event = [name |-> "ArbitrageExecuted", user |-> e, a |-> last.profit,
                     b |-> last.executor_fee, c |-> last.profit - last.executor_fee]

\* the example of the specification: 1000 -> 1100, fee 10, pool 1090
C5_Witness ==
  /\ Committed("execute_arbitrage")
  /\ last.initial_balance = 1000
  /\ last.final_balance = 1100
  /\ last.min_profit = 50
  /\ last.executor_fee = 10
  /\ vault_token = 1090

\* the forward of the last execute_arbitrage returned and the balance was re-read
ArbitrageSwapped ==
  /\ last.op = "execute_arbitrage"
  /\ last.resp.ok
  /\ last.err \notin {"AccountNotInitialized", "InvalidTokenMint",
                      "InsufficientVaultBalance", "InvalidMinProfit", "ConstraintRaw"}

\* C6: an execute_arbitrage whose swap leaves final_balance <= initial_balance
\* fails with InsufficientProfit; the pool is as before, no fee is paid and no
\* event is emitted.
C6_NoProfitRejected ==
  (ArbitrageSwapped /\ last.pre.vault_token + last.resp.delta <= last.pre.vault_token) =>
    /\ last.err = "InsufficientProfit"
    /\ vault_token = last.pre.vault_token
    /\ user_token = last.pre.user_token
    /\ last.event = NoEvent
    /\ RolledBack

\* a swap that took at least min_profit out of the pool, rejected
C6_Witness ==
  /\ ArbitrageSwapped
  /\ last.resp.delta < 0
  /\ 0 - last.resp.delta >= last.min_profit
  /\ last.final_balance < last.initial_balance
  /\ last.err = "InsufficientProfit"

\* C7: execute_arbitrage never commits with a profit below min_profit: a
\* positive profit below min_profit fails with InsufficientProfit and is
\* rolled back, and every emitted event has profit >= min_profit > 0.
C7_MinProfitEnforced ==
  /\ (ArbitrageSwapped /\ 0 < last.resp.delta /\ last.resp.delta < last.min_profit) =>
       (last.err = "InsufficientProfit" /\ RolledBack /\ last.event = NoEvent)
  /\ last.event.name = "ArbitrageExecuted" =>
       (last.event.a >= last.min_profit /\ last.min_profit > 0)

C7_Witness ==
  /\ ArbitrageSwapped
  /\ 0 < last.resp.delta
  /\ last.resp.delta < last.min_profit
  /\ last.final_balance > last.initial_balance
  /\ last.err = "InsufficientProfit"

\* the last instruction asked the router to forward `data` to the aggregator
Forward ==
  \/ last.op \in {"execute_jupiter_swap", "execute_vault_jupiter_swap"}
  \/ last.op = "execute_arbitrage" /\ last.router = SWAP_ROUTER_ID

\* C8: a forward with an empty instruction payload is refused, in the direct
\* and in the delegated mode, before any call of the aggregator is made, and
\* with EmptyInstructionData when the router's other validations pass.
C8_EmptyPayloadRejected ==
  (Forward /\ Len(last.data) = 0) =>
    /\ AggregatorCalls = {}
    /\ last.err # "Ok"
    /\ (/\ last.op # "execute_arbitrage"
        /\ last.pre.router_state.initialized
        /\ last.jupiter_program = JUPITER_V6) => last.err = "EmptyInstructionData"

\* C9: the aggregator is called with delegated authority only from an
\* execute_vault_jupiter_swap that the vault invoked with its own seeds.
C9_DelegatedOnlyFromVault ==
  \A i \in AggregatorCalls :
    last.cpi[i].mode = "delegated" =>
      (last.cpi[i].origin = VAULT_ID /\ last.cpi[i].seeds = VaultSeeds)

C12_EveryForwardCounted ==
  /\ router_state.total_swaps >= last.pre.router_state.total_swaps
  /\ (Forward /\ last.err = "Ok" /\ AggregatorCalls # {}) =>
       router_state.total_swaps = last.pre.router_state.total_swaps + 1

\* C13: a direct-mode forward that passes the router's validations and whose
\* aggregator call fails returns that failure, and total_swaps is afterwards
\* what it was before, although the increment precedes the call.
C13_FailedForwardNotCounted ==
  (/\ last.op = "execute_jupiter_swap"
   /\ DirectReaches(last.pre, last.jupiter_program, last.data)
   /\ last.pre.router_state.total_swaps < U64_MAX
   /\ ~last.resp.ok) =>
    /\ last.err = "AggregatorError"
    /\ AggregatorCalls # {}
    /\ router_state.total_swaps = last.pre.router_state.total_swaps
    /\ RolledBack

\* a failed aggregator call after an earlier forward that was counted
C13_Witness ==
  /\ last.op = "execute_jupiter_swap"
  /\ last.err = "AggregatorError"
  /\ Len(last.cpi) = 1
  /\ last.cpi[1].program = JUPITER_V6
  /\ last.cpi[1].mode = "direct"
  /\ last.pre.router_state.total_swaps = 1
  /\ router_state.total_swaps = 1

\* C14: a forward, direct or delegated, whose target program is not JUPITER_V6
\* is rejected before any side effect: no cross-program call is made by the
\* router and total_swaps is unchanged.
C14_WrongTargetRejected ==
  (Forward /\ last.jupiter_program # JUPITER_V6) =>
    /\ last.err # "Ok"
    /\ AggregatorCalls = {}
    /\ \A i \in DOMAIN last.cpi : last.cpi[i].caller # SWAP_ROUTER_ID
    /\ router_state.total_swaps = last.pre.router_state.total_swaps
    /\ RolledBack
    /\ (last.op # "execute_arbitrage" /\ last.pre.router_state.initialized) =>
         last.err = "ConstraintRaw"

\* a delegated forward to another program, refused by an initialized router
C14_Witness ==
  /\ last.op = "execute_vault_jupiter_swap"
  /\ last.pre.router_state.initialized
  /\ last.jupiter_program = OTHER_PROGRAM
  /\ Len(last.data) > 0
  /\ last.err = "ConstraintRaw"
  /\ last.cpi = <<>>

\* the same in the direct mode and inside execute_arbitrage
C14_WitnessDirect ==
  /\ last.op = "execute_jupiter_swap"
  /\ last.pre.router_state.initialized
  /\ last.jupiter_program = OTHER_PROGRAM
  /\ last.err = "ConstraintRaw"

\* C15: fee_rate_bps <= 1000 in every reachable state: an initialize_router
\* with a larger rate fails with InvalidFeeRate and creates no RouterState,
\* and no other instruction changes fee_rate_bps.
C15_FeeRateBounded ==
  /\ router_state.fee_rate_bps <= 1000
  /\ (/\ last.op = "initialize_router"
      /\ ~last.pre.router_state.initialized
      /\ last.amount > 1000) =>
       (last.err = "InvalidFeeRate" /\ ~router_state.initialized /\ RolledBack)
  /\ (last.op # "initialize_router" \/ last.pre.router_state.initialized) =>
       router_state.fee_rate_bps = last.pre.router_state.fee_rate_bps

\* a rate of 1001 refused on a router that was never initialized
C15_Witness ==
  /\ last.op = "initialize_router"
  /\ last.amount = 1001
  /\ last.err = "InvalidFeeRate"
  /\ ~router_state.initialized
  /\ router_state.fee_rate_bps = 0

\* C16: an execute_arbitrage on a pool of 0 fails with InsufficientVaultBalance
\* and one with min_profit = 0 on a funded pool fails with InvalidMinProfit;
\* in both cases no program has been called and no account has changed.
C16_ArbitragePreconditions ==
  (/\ last.op = "execute_arbitrage"
   /\ last.pre.vault.initialized
   /\ last.executor_mint = WSOL_MINT) =>
    /\ last.pre.vault_token = 0 =>
         (last.err = "InsufficientVaultBalance" /\ last.cpi = <<>> /\ RolledBack)
    /\ (last.pre.vault_token > 0 /\ last.min_profit = 0) =>
         (last.err = "InvalidMinProfit" /\ last.cpi = <<>> /\ RolledBack)

\* min_profit = 0 refused on a funded pool, with a router that would forward
C16_Witness ==
  /\ last.op = "execute_arbitrage"
  /\ last.pre.vault_token > 0
  /\ last.pre.router_state.initialized
  /\ last.router = SWAP_ROUTER_ID
  /\ last.jupiter_program = JUPITER_V6
  /\ last.min_profit = 0
  /\ last.err = "InvalidMinProfit"
  /\ last.cpi = <<>>

\* an empty pool refused although min_profit is positive
C16_WitnessEmptyPool ==
  /\ last.op = "execute_arbitrage"
  /\ last.pre.vault.initialized
  /\ last.pre.vault_token = 0
  /\ last.min_profit > 0
  /\ last.err = "InsufficientVaultBalance"

\* C17: execute_arbitrage never settles partially: as many ArbitrageExecuted
\* records have been emitted as executor fees have been paid, a committed
\* execute_arbitrage adds one of each, and a failed one leaves the pool, the
\* executor's balance, total_shares, RouterState and the log as they were.
C17_NoPartialSettlement ==
  /\ log.records = log.fee_payouts
  /\ Committed("execute_arbitrage") =>
       /\ log.records = last.pre.log.records + 1
       /\ log.fee_payouts = last.pre.log.fee_payouts + 1
       /\ last.event.name = "ArbitrageExecuted"
       /\ user_token[last.user] = last.pre.user_token[last.user] + last.event.b
  /\ last.op # "execute_arbitrage" => log = last.pre.log
  /\ (last.op = "execute_arbitrage" /\ last.err # "Ok") =>
       /\ vault_token = last.pre.vault_token
       /\ user_token = last.pre.user_token
       /\ vault.total_shares = last.pre.vault.total_shares
       /\ router_state = last.pre.router_state
       /\ log = last.pre.log
       /\ last.event = NoEvent

\* after one settled arbitrage, a second one whose swap moved the pool and
\* returned fails the profit check
C17_Witness ==
  /\ last.op = "execute_arbitrage"
  /\ last.err = "InsufficientProfit"
  /\ last.resp.ok
  /\ last.resp.delta # 0
  /\ last.final_balance # last.initial_balance
  /\ vault_token = last.initial_balance
  /\ log.records = 1
  /\ log.fee_payouts = 1

\* C18: a deposit the depositor can pay whose product amount * total_shares
\* does not fit 64 bits fails with MathOverflow, and so does one whose updated
\* position or total_shares would not fit; the pool, the depositor's balance,
\* the position and total_shares are afterwards as before, although the
\* transfer comes before the share computation.
C18_DepositOverflowRolledBack ==
  LET u == last.user
      p == last.pre
      sh == DepositShares(last.amount, p.vault.total_shares,
                          DepositVaultBalance(p.vault_token, last.amount))
  IN
  (/\ last.op = "deposit"
   /\ p.vault.initialized
   /\ last.amount <= p.user_token[u]
   /\ \/ p.vault.total_shares # 0 /\ last.amount * p.vault.total_shares > U64_MAX
      \/ sh # None /\ p.position[u].shares + sh > U64_MAX
      \/ sh # None /\ p.vault.total_shares + sh > U64_MAX) =>
    /\ last.err = "MathOverflow"
    /\ vault_token = p.vault_token
    /\ user_token[u] = p.user_token[u]
    /\ position[u] = p.position[u]
    /\ vault.total_shares = p.vault.total_shares
    /\ RolledBack

\* 1000 deposited on top of 1000 shares: the product exceeds U64_MAX
C18_Witness ==
  /\ last.op = "deposit"
  /\ last.err = "MathOverflow"
  /\ last.amount > 0
  /\ last.amount <= last.pre.user_token[last.user]
  /\ last.pre.vault.total_shares > 0
  /\ last.amount * last.pre.vault.total_shares > U64_MAX
  /\ last.pre.vault_token >= last.amount
  /\ user_token[last.user] = last.pre.user_token[last.user]

\* C19: execute_arbitrage forwards only through the router stored in
\* vault.swap_router: with any other swap_router_program it fails before a
\* cross-program call is made.
C19_OnlyStoredRouter ==
  (/\ last.op = "execute_arbitrage"
   /\ last.pre.vault.initialized
   /\ last.router # last.pre.vault.swap_router) =>
    /\ last.err # "Ok"
    /\ last.cpi = <<>>

\* C20: with the pool funded only through deposit, withdraw and
\* execute_arbitrage, total_shares = 0 exactly when the pool balance is 0; so a
\* deposit that divides never divides by 0, and a committed withdraw of 0
\* shares moves no tokens.
C20_SharesZeroIffPoolZero ==
  /\ (vault.total_shares = 0) <=> (vault_token = 0)
  /\ (/\ last.op = "deposit"
      /\ last.pre.vault.initialized
      /\ last.amount <= last.pre.user_token[last.user]
      /\ last.pre.vault.total_shares # 0) =>
       (last.vault_balance # 0 /\ last.vault_balance = last.pre.vault_token)
  /\ (last.op = "withdraw" /\ last.shares = 0) =>
       /\ vault_token = last.pre.vault_token
       /\ user_token = last.pre.user_token
       /\ Committed("withdraw") => last.amount = 0

\* a withdraw of 0 shares committed on a vault that a full withdraw emptied
C20_Witness ==
  /\ Committed("withdraw")
  /\ last.shares = 0
  /\ last.pre.position[last.user].exists
  /\ last.pre.vault.total_shares = 0
  /\ last.pre.vault_token = 0
  /\ last.amount = 0
  /\ user_token[last.user] = InitialBalance

\* a deposit that divides by a positive pool balance
C20_WitnessDeposit ==
  /\ Committed("deposit")
  /\ last.pre.vault.total_shares > 0
  /\ last.vault_balance > 0
  /\ last.amount > 0

\* the users that hold a UserPosition account
Holders == {u \in Users : position[u].exists}

\* the orders in which the users of S can act, each once
Orders(S) ==
  {f \in [1..Cardinality(S) -> S] : \A i, j \in 1..Cardinality(S) : f[i] = f[j] => i = j}

RECURSIVE RedeemAll(_, _)
\* every user of `order` in turn withdraws all the shares of their position
RedeemAll(s, order) ==
  IF order = <<>> THEN [ok |-> TRUE, st |-> s]
  ELSE
  LET u == Head(order)
      r == WithdrawRun(s, u, u, s.position[u].shares)
  IN
  IF r.out.err # "Ok" THEN [ok |-> FALSE, st |-> s]
  ELSE RedeemAll(Settle(r.out.err, s, r.st), Tail(order))

\* C21: the vault is solvent for redemptions: in every state, for every owner
\* and every shares <= the owner's position, the amount withdraw computes
\* exists and is at most the pool balance; and when all holders withdraw all
\* their shares, in any order, every withdraw succeeds and the vault ends with
\* total_shares = 0 and an empty pool.  The accounts after a failed instruction
\* are those of the state it started from (first conjunct), so the amounts
\* are computed in the states a committed instruction left.
C21_Solvent ==
  /\ last.err # "Ok" => St = last.pre
  /\ last.err = "Ok" =>
       \A u \in Users : \A shares \in 0..position[u].shares :
         LET amount == WithdrawAmount(shares, vault_token, vault.total_shares) IN
         amount # None /\ amount <= vault_token
  /\ \A order \in Orders(Holders) :
       LET r == RedeemAll(St, order) IN
       /\ r.ok
       /\ r.st.vault.total_shares = 0
       /\ r.st.vault_token = 0
       /\ \A u \in Users : r.st.position[u].shares = 0

\* two holders, a pool that an arbitrage raised above total_shares, and the
\* second holder has just redeemed a part
C21_Witness ==
  /\ Committed("withdraw")
  /\ Holders = Users
  /\ \A u \in Users : position[u].shares > 0
  /\ vault_token > vault.total_shares
  /\ log.records > 0

\* C22: execute_arbitrage, committed or failed, leaves vault.total_shares,
\* every UserPosition and the vault's authority, swap_router and bump as they
\* were; a deposit or withdraw signed by one user leaves the shares of every
\* other user's position as they were; and once the vault is created no
\* instruction changes its authority, swap_router or bump.
C22_FrameEffects ==
  /\ last.op = "execute_arbitrage" =>
       /\ vault.total_shares = last.pre.vault.total_shares
       /\ vault.authority = last.pre.vault.authority
       /\ vault.swap_router = last.pre.vault.swap_router
       /\ vault.bump = last.pre.vault.bump
       /\ \A u \in Users : position[u] = last.pre.position[u]
  /\ last.op \in {"deposit", "withdraw"} =>
       \A v \in Users \ {last.user} : position[v].shares = last.pre.position[v].shares
  /\ last.pre.vault.initialized =>
       /\ vault.initialized
       /\ vault.authority = last.pre.vault.authority
       /\ vault.swap_router = last.pre.vault.swap_router
       /\ vault.bump = last.pre.vault.bump

\* an arbitrage settled on a vault with two holders: the pool grew, the
\* executor was paid, and the shares are the same
C22_Witness ==
  /\ Committed("execute_arbitrage")
  /\ \A u \in Users : position[u].shares > 0
  /\ vault_token > last.pre.vault_token
  /\ last.executor_fee > 0
  /\ user_token[last.user] = last.pre.user_token[last.user] + last.executor_fee
  /\ vault.total_shares = position["u1"].shares + position["u2"].shares
  /\ vault.bump = VaultBump

\* a deposit by one holder next to another holder's position
C22_WitnessDeposit ==
  /\ Committed("deposit")
  /\ last.shares > 0
  /\ \E v \in Users \ {last.user} : position[v].shares > 0

====
